---- MODULE Spec2Model ----
(***************************************************************************)
(* Model of the linRust dense-matrix library: Matrix<T> of src/matrix.rs   *)
(* (the current engine) and the earlier Matrix<T> of src/lib.rs.           *)
(*                                                                         *)
(* A Vec<T> is a sequence; Rust's 0-based index i is position i + 1.       *)
(* T is an unsigned integer type scaled down to the range 0..Modulus-1.    *)
(* Rust arithmetic on T panics on overflow when the build has overflow     *)
(* checks (debug profile) and wraps otherwise (release profile); the       *)
(* profile is the variable overflow_checks, chosen once in Init.           *)
(* usize is modelled by the naturals: dimensions stay far below 2^64.      *)
(* A panic ends the program: no operation is enabled after one.            *)
(***************************************************************************)
EXTENDS Integers, Sequences, FiniteSets, TLC

\* ---- bounds ----
MaxDim == 2
MaxLen == 4
Modulus == 2

T == 0 .. (Modulus - 1)
Dims == 0 .. MaxDim

RECURSIVE SeqsUpTo(_)
SeqsUpTo(n) ==
    IF n = 0 THEN {<<>>}
    ELSE LET shorter == SeqsUpTo(n - 1)
         IN  shorter \cup {Append(s, x) : s \in {t \in shorter : Len(t) = n - 1}, x \in T}

Vecs == SeqsUpTo(MaxLen)

\* ---- src/error.rs: enum MatrixError, plus the two panics of the engine ----
DimensionMismatch == "DimensionMismatch"
InvalidIndex == "InvalidIndex"
IndexOutOfBounds == "index out of bounds"
ArithmeticOverflow == "arithmetic overflow"
NoError == "none"

\* ---- src/identity_element.rs ----
zero == 0
one == 1
\* T::default() of the integer types
default == 0

\* ---- struct Matrix<T> and Matrix::new ----
new(rows, cols, values) == [rows |-> rows, cols |-> cols, values |-> values]

Matrices == {new(r, c, v) : r \in Dims, c \in Dims, v \in Vecs}

NoMatrix == new(0, 0, <<>>)

\* The outcome of a call: Ok(..), Err(MatrixError) or a panic.
\* self is the receiver after the call, mat/val the returned matrix/element.
Ok(s, m, v) == [kind |-> "ok", err |-> NoError, self |-> s, mat |-> m, val |-> v]
Err(s, e) == [kind |-> "err", err |-> e, self |-> s, mat |-> NoMatrix, val |-> 0]
Panic(s, e) == [kind |-> "panic", err |-> e, self |-> s, mat |-> NoMatrix, val |-> 0]

\* ---- arithmetic of T: + - * of a bounded unsigned integer ----
Overflows(n) == n < 0 \/ n >= Modulus
Wrap(n) == n % Modulus

\* vec![x; n]
Fill(x, n) == [k \in 1 .. n |-> x]

get_rows(m) == m.rows
get_cols(m) == m.cols
get_values(m) == m.values

set_rows(m, new_rows) == [m EXCEPT !.rows = new_rows]
set_cols(m, new_cols) == [m EXCEPT !.cols = new_cols]

\* set_values with the length compared to the old values instead of rows * cols
set_values_old_len(m, new_values) ==
    IF Len(new_values) = Len(m.values)
    THEN Ok([m EXCEPT !.values = new_values], NoMatrix, 0)
    ELSE Err(m, DimensionMismatch)

set_values(m, new_values) ==
    IF Len(new_values) = m.rows * m.cols
    THEN Ok([m EXCEPT !.values = new_values], NoMatrix, 0)
    ELSE Err(m, DimensionMismatch)

value_at(m, row, col) ==
    IF row < m.rows /\ col < m.cols
    THEN LET index == (row * m.cols) + col
         IN  IF index < Len(m.values)
             THEN Ok(m, NoMatrix, m.values[index + 1])
             ELSE Panic(m, IndexOutOfBounds)
    ELSE Err(m, InvalidIndex)

Min(x, y) == IF x < y THEN x ELSE y

\* add: self.values.iter().zip(&matrix_b.values).map(|(a, b)| *a + *b)
add(m, matrix_b, oc) ==
    IF m.rows # matrix_b.rows \/ m.cols # matrix_b.cols
    THEN Err(m, DimensionMismatch)
    ELSE LET n == Min(Len(m.values), Len(matrix_b.values))
         IN  IF oc /\ \E k \in 1 .. n : Overflows(m.values[k] + matrix_b.values[k])
             THEN Panic(m, ArithmeticOverflow)
             ELSE Ok(m, new(m.rows, m.cols,
                            [k \in 1 .. n |-> Wrap(m.values[k] + matrix_b.values[k])]), 0)

\* for i in 0..self.values.len() { self.values[i] = self.values[i] (+|-) matrix_b.values[i] }
\* sign is 1 for add_mut and -1 for subtract
RECURSIVE ElementwiseLoop(_, _, _, _, _)
ElementwiseLoop(m, matrix_b, sign, i, oc) ==
    IF i >= Len(m.values) THEN Ok(m, NoMatrix, 0)
    ELSE IF i >= Len(matrix_b.values) THEN Panic(m, IndexOutOfBounds)
    ELSE LET v == m.values[i + 1] + sign * matrix_b.values[i + 1]
         IN  IF oc /\ Overflows(v) THEN Panic(m, ArithmeticOverflow)
             ELSE ElementwiseLoop([m EXCEPT !.values[i + 1] = Wrap(v)], matrix_b, sign, i + 1, oc)

add_mut(m, matrix_b, oc) ==
    IF m.rows # matrix_b.rows \/ m.cols # matrix_b.cols
    THEN Err(m, DimensionMismatch)
    ELSE ElementwiseLoop(m, matrix_b, 1, 0, oc)

subtract(m, matrix_b, oc) ==
    IF m.rows # matrix_b.rows \/ m.cols # matrix_b.cols
    THEN Err(m, DimensionMismatch)
    ELSE ElementwiseLoop(m, matrix_b, -1, 0, oc)

\* the transpose loop reading values[i*cols + j]: the source index not remapped
RECURSIVE TransposeLoopNoRemap(_, _, _)
TransposeLoopNoRemap(m, new_values, n) ==
    IF n >= m.cols * m.rows THEN Ok(m, new(m.cols, m.rows, new_values), 0)
    ELSE LET i == n \div m.rows
             j == n % m.rows
         IN  IF i * m.cols + j >= Len(m.values) THEN Panic(m, IndexOutOfBounds)
             ELSE TransposeLoopNoRemap(m, [new_values EXCEPT ![i * m.rows + j + 1] = m.values[i * m.cols + j + 1]],
                                       n + 1)

\* for i in 0..cols { for j in 0..rows { new_values[i*rows + j] = values[j*cols + i] } }
\* n = i * rows + j enumerates the iterations in order
RECURSIVE TransposeLoop(_, _, _)
TransposeLoop(m, new_values, n) ==
    IF n >= m.cols * m.rows THEN Ok(m, new(m.cols, m.rows, new_values), 0)
    ELSE LET i == n \div m.rows
             j == n % m.rows
         IN  IF j * m.cols + i >= Len(m.values) THEN Panic(m, IndexOutOfBounds)
             ELSE TransposeLoop(m, [new_values EXCEPT ![i * m.rows + j + 1] = m.values[j * m.cols + i + 1]],
                                n + 1)

transpose(m) == TransposeLoop(m, Fill(default, m.rows * m.cols), 0)

\* for k in 0..self.cols { sum += self.values[i*cols + k] * bt.values[j*bt.cols + k] }
RECURSIVE DotLoop(_, _, _, _, _, _, _)
DotLoop(m, bt, i, j, k, sum, oc) ==
    IF k >= m.cols THEN [kind |-> "ok", err |-> NoError, val |-> sum]
    ELSE IF i * m.cols + k >= Len(m.values) \/ j * bt.cols + k >= Len(bt.values)
    THEN [kind |-> "panic", err |-> IndexOutOfBounds, val |-> 0]
    ELSE LET p == m.values[i * m.cols + k + 1] * bt.values[j * bt.cols + k + 1]
         IN  IF oc /\ (Overflows(p) \/ Overflows(sum + Wrap(p)))
             THEN [kind |-> "panic", err |-> ArithmeticOverflow, val |-> 0]
             ELSE DotLoop(m, bt, i, j, k + 1, Wrap(sum + Wrap(p)), oc)

\* for i in 0..self.rows { for j in 0..bt.rows { ...; new_values[i*matrix_b.cols + j] = sum } }
\* n = i * bt.rows + j enumerates the iterations in order
RECURSIVE MultLoop(_, _, _, _, _, _)
MultLoop(m, matrix_b, bt, new_values, n, oc) ==
    IF n >= m.rows * bt.rows THEN Ok(m, new(m.rows, matrix_b.cols, new_values), 0)
    ELSE LET i == n \div bt.rows
             j == n % bt.rows
             dot == DotLoop(m, bt, i, j, 0, default, oc)
         IN  IF dot.kind = "panic" THEN Panic(m, dot.err)
             ELSE MultLoop(m, matrix_b, bt,
                           [new_values EXCEPT ![i * matrix_b.cols + j + 1] = dot.val], n + 1, oc)

mult_naive(m, matrix_b, oc) ==
    IF m.cols # matrix_b.rows
    THEN Err(m, DimensionMismatch)
    ELSE LET t == transpose(matrix_b)
         IN  IF t.kind = "panic" THEN Panic(m, t.err)
             ELSE MultLoop(m, matrix_b, t.mat, Fill(default, m.rows * matrix_b.cols), 0, oc)

\* for value in &mut self.values { *value = *value * num }
RECURSIVE ScalarLoop(_, _, _, _)
ScalarLoop(m, num, i, oc) ==
    IF i >= Len(m.values) THEN Ok(m, NoMatrix, 0)
    ELSE LET v == m.values[i + 1] * num
         IN  IF oc /\ Overflows(v) THEN Panic(m, ArithmeticOverflow)
             ELSE ScalarLoop([m EXCEPT !.values[i + 1] = Wrap(v)], num, i + 1, oc)

mult_scalar(m, num, oc) == ScalarLoop(m, num, 0, oc)

\* vec![T::zero(); order*order], then values[i*order + i] = T::one()
identity(order) ==
    new(order, order,
        [n \in 1 .. order * order |->
            IF (n - 1) \div order = (n - 1) % order THEN one ELSE zero])

\* ---- src/lib.rs: the earlier Matrix<T> ----
\* get returns Some(&values[index]) or None; the index expression can panic
lib_get(m, row, col) ==
    IF row < m.rows /\ col < m.cols
    THEN LET index == (row * m.cols) + col
         IN  IF index < Len(m.values)
             THEN Ok(m, NoMatrix, m.values[index + 1])
             ELSE Panic(m, IndexOutOfBounds)
    ELSE Err(m, NoError)

\* for i in 0..cols { for j in 0..rows { new_values.push(*self.get(j, i).unwrap()) } }
RECURSIVE LibTransposeLoop(_, _, _)
LibTransposeLoop(m, new_values, n) ==
    IF n >= m.cols * m.rows THEN Ok(m, new(m.cols, m.rows, new_values), 0)
    ELSE LET i == n \div m.rows
             j == n % m.rows
             g == lib_get(m, j, i)
         IN  IF g.kind # "ok" THEN Panic(m, g.err)
             ELSE LibTransposeLoop(m, Append(new_values, g.val), n + 1)

lib_transpose(m) == LibTransposeLoop(m, <<>>, 0)

\* for k in 0..self.cols { sum += *self.get(i, k).unwrap() * *b_t.get(j, k).unwrap() }
RECURSIVE LibDotLoop(_, _, _, _, _, _, _)
LibDotLoop(m, b_t, i, j, k, sum, oc) ==
    IF k >= m.cols THEN [kind |-> "ok", err |-> NoError, val |-> sum]
    ELSE LET x == lib_get(m, i, k)
             y == lib_get(b_t, j, k)
         IN  IF x.kind # "ok" THEN [kind |-> "panic", err |-> x.err, val |-> 0]
             ELSE IF y.kind # "ok" THEN [kind |-> "panic", err |-> y.err, val |-> 0]
             ELSE IF oc /\ (Overflows(x.val * y.val) \/ Overflows(sum + Wrap(x.val * y.val)))
             THEN [kind |-> "panic", err |-> ArithmeticOverflow, val |-> 0]
             ELSE LibDotLoop(m, b_t, i, j, k + 1, Wrap(sum + Wrap(x.val * y.val)), oc)

\* for i in 0..self.rows { for j in 0..matrix_b.cols { ...; new_values.push(sum) } }
RECURSIVE LibMultLoop(_, _, _, _, _, _)
LibMultLoop(m, matrix_b, b_t, new_values, n, oc) ==
    IF n >= m.rows * matrix_b.cols THEN Ok(m, new(matrix_b.rows, m.cols, new_values), 0)
    ELSE LET i == n \div matrix_b.cols
             j == n % matrix_b.cols
             dot == LibDotLoop(m, b_t, i, j, 0, default, oc)
         IN  IF dot.kind = "panic" THEN Panic(m, dot.err)
             ELSE LibMultLoop(m, matrix_b, b_t, Append(new_values, dot.val), n + 1, oc)

lib_mult_naive(m, matrix_b, oc) ==
    IF m.cols # matrix_b.rows
    THEN Err(m, DimensionMismatch)
    ELSE LET t == lib_transpose(matrix_b)
         IN  IF t.kind = "panic" THEN Panic(m, t.err)
             ELSE LibMultLoop(m, matrix_b, t.mat, <<>>, 0, oc)

\* ---- the state machine ----
\* self is the receiver of the calls, other the matrix borrowed as the
\* second operand (matrix_b) of the binary operations; pre is the receiver
\* before the last call, op the last call, res its outcome.
VARIABLES self, other, pre, op, res, overflow_checks

vars == <<self, other, pre, op, res, overflow_checks>>

\* a call: its name and arguments (unused arguments hold a fixed filler)
Call(name, row, col, vals) == [name |-> name, row |-> row, col |-> col, vals |-> vals]

Running == res.kind # "panic"

\* a call on the receiver with outcome r
Return(c, r) ==
    /\ pre' = self
    /\ op' = c
    /\ res' = r
    /\ self' = r.self
    /\ UNCHANGED <<other, overflow_checks>>

\* ---- operations on one matrix ----
\* Matrix::new is the construction of the receiver: it accepts any rows,
\* cols and values
Init ==
    /\ overflow_checks \in BOOLEAN
    /\ \E r \in Dims, c \in Dims, v \in Vecs : self = new(r, c, v)
    /\ other = NoMatrix
    /\ pre = self
    /\ op = Call("new", 0, 0, <<>>)
    /\ res = Ok(self, NoMatrix, 0)

SetRows ==
    /\ Running
    /\ \E n \in Dims :
          Return(Call("set_rows", n, 0, <<>>), Ok(set_rows(self, n), NoMatrix, 0))

SetCols ==
    /\ Running
    /\ \E n \in Dims :
          Return(Call("set_cols", 0, n, <<>>), Ok(set_cols(self, n), NoMatrix, 0))

SetValues ==
    /\ Running
    /\ \E v \in Vecs :
          Return(Call("set_values", 0, 0, v), set_values(self, v))

ValueAt ==
    /\ Running
    /\ \E row \in Dims, col \in Dims :
          Return(Call("value_at", row, col, <<>>), value_at(self, row, col))

Transpose ==
    /\ Running
    /\ Return(Call("transpose", 0, 0, <<>>), transpose(self))

MultScalar ==
    /\ Running
    /\ \E num \in T :
          Return(Call("mult_scalar", 0, 0, <<num>>), mult_scalar(self, num, overflow_checks))

\* Matrix::identity(order) is an associated function: it builds a matrix
\* and leaves the receiver alone
Identity ==
    /\ Running
    /\ \E order \in Dims :
          Return(Call("identity", order, order, <<>>), Ok(self, identity(order), 0))

LibTranspose ==
    /\ Running
    /\ Return(Call("lib_transpose", 0, 0, <<>>), lib_transpose(self))

Next ==
    \/ SetRows
    \/ SetCols
    \/ SetValues
    \/ ValueAt
    \/ Transpose
    \/ MultScalar
    \/ Identity
    \/ LibTranspose

Spec == Init /\ [][Next]_vars

\* ---- transposition alone: every constructed matrix, transposed ----
NextTranspose ==
    \/ Transpose
    \/ LibTranspose

SpecTranspose == Init /\ [][NextTranspose]_vars

\* ---- operations on two matrices: self.op(&other) ----
InitPair ==
    /\ overflow_checks \in BOOLEAN
    /\ \E r \in Dims, c \in Dims, v \in Vecs : self = new(r, c, v)
    /\ \E r \in Dims, c \in Dims, v \in Vecs : other = new(r, c, v)
    /\ pre = self
    /\ op = Call("new", 0, 0, <<>>)
    /\ res = Ok(self, NoMatrix, 0)

Add ==
    /\ Running
    /\ Return(Call("add", 0, 0, <<>>), add(self, other, overflow_checks))

AddMut ==
    /\ Running
    /\ Return(Call("add_mut", 0, 0, <<>>), add_mut(self, other, overflow_checks))

Subtract ==
    /\ Running
    /\ Return(Call("subtract", 0, 0, <<>>), subtract(self, other, overflow_checks))

MultNaive ==
    /\ Running
    /\ Return(Call("mult_naive", 0, 0, <<>>), mult_naive(self, other, overflow_checks))

LibMultNaive ==
    /\ Running
    /\ Return(Call("lib_mult_naive", 0, 0, <<>>), lib_mult_naive(self, other, overflow_checks))

NextPair ==
    \/ Add
    \/ AddMut
    \/ Subtract
    \/ MultNaive
    \/ LibMultNaive

SpecPair == InitPair /\ [][NextPair]_vars

\* ---- properties ----
\* the size invariant of the data model: values.len() == rows * cols
WellFormed(m) == Len(m.values) = m.rows * m.cols

SameShape(m, n) == m.rows = n.rows /\ m.cols = n.cols

\* C1: after every returned operation the receiver, and every matrix the
\* operation returned, has values.len() == rows * cols.
C1_SizeInvariant ==
    /\ WellFormed(self)
    /\ res.kind = "ok" => WellFormed(res.mat)

\* C2: no call panics on the library's own indexing of values.
C2_NoIndexPanic == ~(res.kind = "panic" /\ res.err = IndexOutOfBounds)

\* C3: value_at(row, col) returns the element at flat index row*cols+col
\* when row < rows and col < cols, and fails with InvalidIndex otherwise.
C3_ValueAt ==
    op.name = "value_at" =>
        IF op.row < pre.rows /\ op.col < pre.cols
        THEN /\ res.kind = "ok"
             /\ op.row * pre.cols + op.col < Len(pre.values)
             /\ res.val = pre.values[op.row * pre.cols + op.col + 1]
        ELSE res.kind = "err" /\ res.err = InvalidIndex

\* C4: add, add_mut and subtract fail with DimensionMismatch, leaving the
\* receiver unchanged, when the shapes differ, and succeed when the shapes
\* are identical.
C4_ShapeCheck ==
    op.name \in {"add", "add_mut", "subtract"} =>
        IF SameShape(pre, other)
        THEN res.kind = "ok"
        ELSE res.kind = "err" /\ res.err = DimensionMismatch /\ self = pre

RECURSIVE SumOfProducts(_, _, _, _, _)
SumOfProducts(a, b, i, j, k) ==
    IF k = 0 THEN default
    ELSE Wrap(SumOfProducts(a, b, i, j, k - 1)
              + a.values[i * a.cols + (k - 1) + 1] * b.values[(k - 1) * b.cols + j + 1])

\* C6: every mult_naive of the repository, for a.cols == b.rows, succeeds
\* with a matrix of shape (a.rows, b.cols) whose element (i, j) is the sum
\* over k of a(i, k) * b(k, j); for a.cols # b.rows it fails with
\* DimensionMismatch.
C6_MultNaive ==
    op.name \in {"mult_naive", "lib_mult_naive"} =>
        IF pre.cols = other.rows
        THEN /\ res.kind = "ok"
             /\ res.mat.rows = pre.rows
             /\ res.mat.cols = other.cols
             /\ Len(res.mat.values) = pre.rows * other.cols
             /\ \A i \in 0 .. pre.rows - 1, j \in 0 .. other.cols - 1 :
                   res.mat.values[i * other.cols + j + 1] = SumOfProducts(pre, other, i, j, pre.cols)
        ELSE res.kind = "err" /\ res.err = DimensionMismatch

\* C7: on a matrix with values.len() == rows * cols, transpose succeeds,
\* leaves the matrix unchanged and returns the matrix with rows and cols
\* swapped whose element (i, j) is the input's element (j, i); transposing
\* the result gives the input back.
C7_Transpose ==
    (op.name \in {"transpose", "lib_transpose"} /\ WellFormed(pre)) =>
        /\ res.kind = "ok"
        /\ self = pre
        /\ res.mat.rows = pre.cols
        /\ res.mat.cols = pre.rows
        /\ Len(res.mat.values) = pre.rows * pre.cols
        /\ \A i \in 0 .. pre.cols - 1, j \in 0 .. pre.rows - 1 :
              res.mat.values[i * pre.rows + j + 1] = pre.values[j * pre.cols + i + 1]
        /\ LET back == IF op.name = "transpose" THEN transpose(res.mat)
                       ELSE lib_transpose(res.mat)
           IN  back.kind = "ok" /\ back.mat = pre

\* transpose has returned the remapped values of a 2 x 2 matrix whose two
\* off-diagonal elements differ
C7_Witness ==
    /\ op.name = "transpose"
    /\ WellFormed(pre)
    /\ pre.rows = 2 /\ pre.cols = 2
    /\ pre.values[2] # pre.values[3]
    /\ res.kind = "ok"
    /\ res.mat.values # pre.values

\* C8: for same-shape a and b, a.add(b) followed by subtract(b) gives the
\* values of a back, and a.add(b) has the values of b.add(a).
C8_AddSubtract ==
    (op.name = "add" /\ SameShape(pre, other)) =>
        /\ res.kind = "ok"
        /\ LET back == subtract(res.mat, other, overflow_checks)
           IN  back.kind = "ok" /\ back.self.values = pre.values
        /\ LET swapped == add(other, pre, overflow_checks)
           IN  swapped.kind = "ok" /\ swapped.mat.values = res.mat.values

\* C9: m.mult_naive(identity(m.cols)) succeeds and returns a matrix with
\* the shape and the values of m.
C9_MultIdentity ==
    (op.name = "mult_naive" /\ other = identity(pre.cols)) =>
        res.kind = "ok" /\ res.mat = pre

\* C10: a.add_mut(b) fails exactly when a.add(b) fails, and on success a
\* is the matrix a.add(b) returns from a's prior state.
C10_AddMutRefinesAdd ==
    op.name = "add_mut" =>
        LET pure == add(pre, other, overflow_checks)
        IN  /\ (res.kind = "ok") <=> (pure.kind = "ok")
            /\ res.kind = "ok" => self = pure.mat

====
